---- MODULE Spec2Model ----
(***************************************************************************)
(* Model of the PDF colour extractor (core/color/color.py) and of the      *)
(* nearest-name lookup (core/color/colors_util.py).                        *)
(*                                                                         *)
(* A byte is a one-character string.  Numbers parsed by float() are kept   *)
(* as exact decimals: an operand v is the integer v * Scale.  RGB channels *)
(* are exact fractions <<numerator, denominator>>.                         *)
(***************************************************************************)
EXTENDS Integers, Sequences, FiniteSets, TLC

VARIABLES colors, total_count, observed, parse_errors, stream_errors,
          stream_data, data, found, recorded, nstreams, fed, stats, op,
          cmyk_in, cmyk_out, requested_color, closest_out

vars == <<colors, total_count, observed, parse_errors, stream_errors,
          stream_data, data, found, recorded, nstreams, fed, stats, op,
          cmyk_in, cmyk_out, requested_color, closest_out>>

(***************************************************************************)
(* colors, total_count : ColorExtractor.colors (in insertion order) and    *)
(*                       ColorExtractor.total_count                        *)
(* stream_data, data   : the buffer last given to _process_stream and the  *)
(*                       bytes it handed to _parse_content                 *)
(* found, recorded     : what finditer returned for data, per pattern, and *)
(*                       the matches that reached the registry             *)
(* observed            : the (space, operands) of every Color recorded,    *)
(*                       in order (history)                                *)
(* parse_errors, stream_errors : lines printed by the two except clauses   *)
(* nstreams, fed       : streams processed, fragments they held            *)
(* stats, op           : the list get_usage_stats returned last (object    *)
(*                       ids), and the operation called last               *)
(* cmyk_in, cmyk_out   : argument and result of CMYKColorSpace.as_rgb      *)
(* requested_color, closest_out : argument and result of closest_color     *)
(***************************************************************************)
extractor_vars == <<colors, total_count, observed, parse_errors, stream_errors,
                    stream_data, data, found, recorded, nstreams, fed, stats, op>>

(***************************************************************************)
(* Bounds of the model.                                                    *)
(***************************************************************************)
\* operator fragments the PDF library delivers over one run, all streams together
MaxOps == 3
\* content streams handed to _process_stream in one run
MaxStreams == 2
\* decimal places kept for a parsed operand
FracDigits == 3

Scale == 10 ^ FracDigits

(***************************************************************************)
(* Bytes and the character classes of the patterns.                        *)
(***************************************************************************)
Digits == {"0", "1", "2", "3", "4", "5", "6", "7", "8", "9"}

LowerLetters == {"a", "b", "c", "d", "e", "f", "g", "h", "i", "j", "k", "l", "m",
                 "n", "o", "p", "q", "r", "s", "t", "u", "v", "w", "x", "y", "z"}

UpperLetters == {"A", "B", "C", "D", "E", "F", "G", "H", "I", "J", "K", "L", "M",
                 "N", "O", "P", "Q", "R", "S", "T", "U", "V", "W", "X", "Y", "Z"}

\* \s of a bytes pattern: space, \t, \n, \r, \f (and \v, which no input here holds)
Whitespace == {" ", "\t", "\n", "\r", "\f"}

NumBytes == Digits \cup {"."}

Letters == LowerLetters \cup UpperLetters

\* [\d.]
IsNum(b) == b \in NumBytes

\* \s
IsSpace(b) == b \in Whitespace

\* [a-zA-Z]
IsAlpha(b) == b \in Letters

\* the 7-bit bytes a plain content stream is written in
PlainBytes == NumBytes \cup Letters \cup Whitespace

\* a byte with the high bit set, as a compressed stream holds them
HighByte(b) == "~" \o b

HighBytes == {HighByte(b) : b \in PlainBytes} \cup {"~9C"}

\* every value a byte can take
Bytes == PlainBytes \cup HighBytes

(***************************************************************************)
(* The three patterns of COLOR_SPACE_MAP, in the dict's order.  Each is    *)
(* `arity` groups ([\d.]+)\s+ followed by the keyword and [^a-zA-Z].       *)
(***************************************************************************)
COLOR_SPACE_MAP ==
    << [space |-> "rgb",  arity |-> 3, kw |-> <<"r", "g">>],
       [space |-> "cmyk", arity |-> 4, kw |-> <<"k">>],
       [space |-> "gray", arity |-> 1, kw |-> <<"g">>] >>

\* end of the greedy run [\d.]+ that starts at i (i itself when the run is empty)
RECURSIVE NumRunEnd(_, _)
NumRunEnd(buf, i) ==
    IF i <= Len(buf) /\ IsNum(buf[i]) THEN NumRunEnd(buf, i + 1) ELSE i

\* end of the greedy run \s+ that starts at i
RECURSIVE SpaceRunEnd(_, _)
SpaceRunEnd(buf, i) ==
    IF i <= Len(buf) /\ IsSpace(buf[i]) THEN SpaceRunEnd(buf, i + 1) ELSE i

\* the keyword with no check of the byte after it
KeywordEnd_NoBoundary(buf, i, kw) ==
    IF /\ i + Len(kw) - 1 <= Len(buf)
       /\ \A j \in 1..Len(kw) : buf[i + j - 1] = kw[j]
    THEN i + Len(kw)
    ELSE 0

\* the keyword followed by a non-letter or by the end of the buffer
KeywordEnd_EndOk(buf, i, kw) ==
    IF /\ i + Len(kw) - 1 <= Len(buf)
       /\ \A j \in 1..Len(kw) : buf[i + j - 1] = kw[j]
       /\ (i + Len(kw) <= Len(buf) => ~IsAlpha(buf[i + Len(kw)]))
    THEN (IF i + Len(kw) <= Len(buf) THEN i + Len(kw) + 1 ELSE i + Len(kw))
    ELSE 0

\* kw[^a-zA-Z] at i: the index after the match, 0 when it does not match.
\* [^a-zA-Z] consumes one byte, so a byte must follow the keyword.
KeywordEnd(buf, i, kw) ==
    IF /\ i + Len(kw) <= Len(buf)
       /\ \A j \in 1..Len(kw) : buf[i + j - 1] = kw[j]
       /\ ~IsAlpha(buf[i + Len(kw)])
    THEN i + Len(kw) + 1
    ELSE 0

NoMatch == [ok |-> FALSE, end |-> 0, kwEnd |-> 0, groups |-> <<>>]

\* The pattern with n groups left, tried at index i.  The classes [\d.], \s
\* and the keyword's first letter are pairwise disjoint, so a greedy run that
\* gives a byte back can never be followed by what the pattern wants next:
\* the maximal runs are the only match from i.
RECURSIVE MatchFrom(_, _, _, _)
MatchFrom(buf, i, n, kw) ==
    IF n = 0
    THEN LET e == KeywordEnd(buf, i, kw)
         IN  IF e = 0 THEN NoMatch
             ELSE [ok |-> TRUE, end |-> e, kwEnd |-> i + Len(kw) - 1, groups |-> <<>>]
    ELSE LET j == NumRunEnd(buf, i)
             l == SpaceRunEnd(buf, j)
         IN  IF j = i \/ l = j THEN NoMatch
             ELSE LET rest == MatchFrom(buf, l, n - 1, kw)
                  IN  IF rest.ok
                      THEN [rest EXCEPT !.groups = <<SubSeq(buf, i, j - 1)>> \o @]
                      ELSE NoMatch

\* pattern.finditer(data): leftmost match from pos, then on from its end
RECURSIVE finditer(_, _, _)
finditer(pat, buf, pos) ==
    IF pos > Len(buf) THEN <<>>
    ELSE LET m == MatchFrom(buf, pos, pat.arity, pat.kw)
         IN  IF m.ok THEN <<m>> \o finditer(pat, buf, m.end)
             ELSE finditer(pat, buf, pos + 1)

(***************************************************************************)
(* float(x.decode('ascii')) on a token of [\d.]+                           *)
(***************************************************************************)
DigitVal(b) == CHOOSE n \in 0..9 : <<"0", "1", "2", "3", "4", "5", "6", "7", "8", "9">>[n + 1] = b

\* float() takes digits with at most one '.', and at least one digit
ValidDecimal(tok) ==
    /\ Cardinality({i \in 1..Len(tok) : tok[i] = "."}) <= 1
    /\ \E i \in 1..Len(tok) : tok[i] \in Digits

RECURSIVE DigitsVal(_)
DigitsVal(ds) ==
    IF ds = <<>> THEN 0
    ELSE DigitsVal(SubSeq(ds, 1, Len(ds) - 1)) * 10 + DigitVal(ds[Len(ds)])

\* the value of a valid token, in units of 1/Scale ('1', '1.' and '1.0' are one value)
float(tok) ==
    LET dot  == IF \E i \in 1..Len(tok) : tok[i] = "."
                THEN CHOOSE i \in 1..Len(tok) : tok[i] = "."
                ELSE Len(tok) + 1
        ip   == SubSeq(tok, 1, dot - 1)
        fp   == SubSeq(tok, dot + 1, Len(tok))
    IN  DigitsVal(ip) * Scale + (DigitsVal(fp) * Scale) \div (10 ^ Len(fp))

(***************************************************************************)
(* Colour spaces.  A channel is a fraction <<num, den>>.                   *)
(***************************************************************************)
Min(a, b) == IF a <= b THEN a ELSE b

RGB_as_rgb(value) == << <<value[1], Scale>>, <<value[2], Scale>>, <<value[3], Scale>> >>

Gray_as_rgb(value) == << <<value[1], Scale>>, <<value[1], Scale>>, <<value[1], Scale>> >>

\* 1.0 - min(1.0, x * (1.0 - k)) : the "+ k" is lost
CMYK_channel_NoBlack(x, k) ==
    << Scale * Scale - Min(Scale * Scale, x * (Scale - k)), Scale * Scale >>

\* 1.0 - min(1.0, x * (1.0 - k) + k), over the denominator Scale^2
CMYK_channel(x, k) ==
    << Scale * Scale - Min(Scale * Scale, x * (Scale - k) + k * Scale), Scale * Scale >>

CMYK_as_rgb(value) ==
    << CMYK_channel(value[1], value[4]),
       CMYK_channel(value[2], value[4]),
       CMYK_channel(value[3], value[4]) >>

as_rgb(space, value) ==
    CASE space = "rgb"  -> RGB_as_rgb(value)
      [] space = "cmyk" -> CMYK_as_rgb(value)
      [] space = "gray" -> Gray_as_rgb(value)

\* Color.rgb
rgb(color) == as_rgb(color.space, color.value)

HexChars == <<"0", "1", "2", "3", "4", "5", "6", "7", "8", "9", "A", "B", "C", "D", "E", "F">>

\* the digits of n >= 0 in base 16, uppercase, no padding
RECURSIVE ToHex(_)
ToHex(n) ==
    IF n < 16 THEN <<HexChars[n + 1]>>
    ELSE ToHex(n \div 16) \o <<HexChars[(n % 16) + 1]>>

\* f"{n:02X}": at least two digits, zero-padded, never cut
Format02X(n) == LET h == ToHex(n) IN IF Len(h) < 2 THEN <<"0">> \o h ELSE h

\* int(channel * 255): channels are never negative, so truncation is the floor
Byte255(ch) == (ch[1] * 255) \div ch[2]

\* Color.hex
hex(color) ==
    LET c == rgb(color)
    IN  <<"#">> \o Format02X(Byte255(c[1])) \o Format02X(Byte255(c[2]))
               \o Format02X(Byte255(c[3]))

(***************************************************************************)
(* closest_color (colors_util.py).  The palette is the library's CSS3      *)
(* table, in the order webcolors.names("css3") lists it; the entries kept  *)
(* here include the names that share one RGB value.                        *)
(***************************************************************************)
Palette ==
    << [name |-> "aqua",    rgb |-> <<0, 255, 255>>],
       [name |-> "black",   rgb |-> <<0, 0, 0>>],
       [name |-> "blue",    rgb |-> <<0, 0, 255>>],
       [name |-> "cyan",    rgb |-> <<0, 255, 255>>],
       [name |-> "fuchsia", rgb |-> <<255, 0, 255>>],
       [name |-> "gray",    rgb |-> <<128, 128, 128>>],
       [name |-> "green",   rgb |-> <<0, 128, 0>>],
       [name |-> "grey",    rgb |-> <<128, 128, 128>>],
       [name |-> "lime",    rgb |-> <<0, 255, 0>>],
       [name |-> "magenta", rgb |-> <<255, 0, 255>>],
       [name |-> "red",     rgb |-> <<255, 0, 0>>],
       [name |-> "white",   rgb |-> <<255, 255, 255>>],
       [name |-> "yellow",  rgb |-> <<255, 255, 0>>] >>

\* rd + gd + bd
Distance(c, requested) ==
    (c[1] - requested[1]) ^ 2 + (c[2] - requested[2]) ^ 2 + (c[3] - requested[3]) ^ 2

\* an assignment that keeps the name already stored under the key
DictSet_KeepFirst(dict, key, name) ==
    IF \E e \in dict : e[1] = key THEN dict ELSE dict \cup {<<key, name>>}

\* min_colors[key] = name: a dict holds one value per key, the last one assigned
DictSet(dict, key, name) == {e \in dict : e[1] # key} \cup {<<key, name>>}

\* the loop over the palette, from entry k on
RECURSIVE MinColors(_, _, _)
MinColors(dict, requested, k) ==
    IF k > Len(Palette) THEN dict
    ELSE LET next == CHOOSE d \in {DictSet(dict, Distance(Palette[k].rgb, requested),
                                           Palette[k].name)} : TRUE
         IN  MinColors(next, requested, k + 1)

\* min_colors[min(min_colors.keys())]
closest_color(requested) ==
    LET min_colors == MinColors({}, requested, 1)
        least == CHOOSE e \in min_colors : \A f \in min_colors : e[1] <= f[1]
    IN  least[2]

(***************************************************************************)
(* The registry: ColorExtractor.colors, a dict, kept here in insertion     *)
(* order.  An entry is the Color object stored as key and value; `id` is   *)
(* the object's identity: the number of the Color(...) call that made it.  *)
(***************************************************************************)
\* equality on the space alone: the operands are not compared
ColorEq_SpaceOnly(a, b) == a.space = b.space

\* Color.__eq__ (and __hash__): same space name, same operand tuple
ColorEq(a, b) == a.space = b.space /\ a.value = b.value

\* color in self.colors
Contains(reg, color) == \E i \in 1..Len(reg) : ColorEq(reg[i], color)

\* the slot of the entry equal to color
IndexOf(reg, color) == CHOOSE i \in 1..Len(reg) : ColorEq(reg[i], color)

\* except AttributeError alone
Caught_NoValueError == {"AttributeError"}

\* except (ValueError, AttributeError)
Caught == {"ValueError", "AttributeError"}

\* total_count moved into the else branch: counted on insertion only
Bump_OnInsertOnly(st, isNew) == IF isNew THEN st.total_count + 1 ELSE st.total_count

\* self.total_count += 1, after either branch
Bump(st, isNew) == st.total_count + 1

\* tuple(float(x.decode('ascii')) for x in match.groups())
RECURSIVE Components(_)
Components(groups) ==
    IF groups = <<>> THEN <<>>
    ELSE <<float(Head(groups))>> \o Components(Tail(groups))

\* the body of the finditer loop for one match of one pattern
RecordMatch(st, space, m) ==
    IF \E i \in 1..Len(m.groups) : ~ValidDecimal(m.groups[i])
    THEN \* float() raises ValueError
         IF "ValueError" \in Caught
         THEN [st EXCEPT !.parse_errors = @ + 1]
         ELSE [st EXCEPT !.exc = "ValueError"]
    ELSE LET components == Components(m.groups)
             color == [space |-> space, value |-> components, count |-> 1,
                       id |-> Len(st.observed) + 1]
             isNew == ~Contains(st.colors, color)
             reg   == IF isNew
                      THEN Append(st.colors, color)
                      ELSE [st.colors EXCEPT ![IndexOf(st.colors, color)].count = @ + 1]
         IN  [st EXCEPT !.colors = reg,
                        !.total_count = Bump(st, isNew),
                        !.observed = Append(@, [space |-> space, value |-> components]),
                        !.recorded = Append(@, [space |-> space, kwEnd |-> m.kwEnd,
                                                end |-> m.end])]

\* for match in pattern.finditer(data): an exception that is not caught ends the
\* loop.  (CHOOSE over a singleton names the state after the step, worked out once.)
RECURSIVE RecordAll(_, _, _)
RecordAll(st, space, ms) ==
    IF ms = <<>> \/ st.exc # "none" THEN st
    ELSE LET next == CHOOSE s \in {RecordMatch(st, space, Head(ms))} : TRUE
         IN  RecordAll(next, space, Tail(ms))

\* the matches of each pattern over the buffer, in the order of COLOR_SPACE_MAP
RECURSIVE MatchesUpTo(_, _)
MatchesUpTo(buf, k) ==
    IF k = 0 THEN <<>>
    ELSE Append(MatchesUpTo(buf, k - 1), finditer(COLOR_SPACE_MAP[k], buf, 1))

Matches(buf) == MatchesUpTo(buf, Len(COLOR_SPACE_MAP))

\* for space, (pattern, converter) in self.COLOR_SPACE_MAP.items()
RECURSIVE ScanSpaces(_, _, _)
ScanSpaces(st, ms, k) ==
    IF k > Len(COLOR_SPACE_MAP) THEN st
    ELSE LET next == CHOOSE s \in {RecordAll(st, COLOR_SPACE_MAP[k].space, ms[k])} : TRUE
         IN  ScanSpaces(next, ms, k + 1)

\* ColorExtractor._parse_content on the buffer buf, whose matches are ms
_parse_content(st, buf, ms) ==
    ScanSpaces([st EXCEPT !.data = buf, !.found = ms, !.recorded = <<>>], ms, 1)

(***************************************************************************)
(* Decoding.  latin-1 maps every byte to the code point of the same        *)
(* number; zlib is the library's codec, kept here as a header and one high *)
(* byte per plain byte.                                                    *)
(***************************************************************************)
\* stream_data.decode('latin-1') raises only on a byte latin-1 does not map
Latin1Fails(buf) == \E i \in 1..Len(buf) : buf[i] \notin Bytes

RECURSIVE latin1_decode(_)
latin1_decode(buf) ==
    IF buf = <<>> THEN <<>> ELSE <<[cp |-> Head(buf)]>> \o latin1_decode(Tail(buf))

RECURSIVE latin1_encode(_)
latin1_encode(str) ==
    IF str = <<>> THEN <<>> ELSE <<Head(str).cp>> \o latin1_encode(Tail(str))

ZlibHeader == <<"x", "~9C">>

RECURSIVE Deflate(_)
Deflate(plain) ==
    IF plain = <<>> THEN <<>> ELSE <<HighByte(Head(plain))>> \o Deflate(Tail(plain))

RECURSIVE Inflate(_)
Inflate(packed) ==
    IF packed = <<>> THEN <<>>
    ELSE <<CHOOSE b \in PlainBytes : HighByte(b) = Head(packed)>> \o Inflate(Tail(packed))

zlib_compress(plain) == ZlibHeader \o Deflate(plain)

\* a buffer zlib.decompress accepts; any other raises zlib.error
IsZlib(buf) ==
    /\ Len(buf) >= Len(ZlibHeader)
    /\ SubSeq(buf, 1, Len(ZlibHeader)) = ZlibHeader
    /\ \A i \in Len(ZlibHeader) + 1..Len(buf) : \E b \in PlainBytes : buf[i] = HighByte(b)

zlib_decompress(buf) == Inflate(SubSeq(buf, Len(ZlibHeader) + 1, Len(buf)))

\* the bytes _process_stream hands to _parse_content: the latin-1 round trip
\* of the buffer, and only when decode raises UnicodeDecodeError the
\* decompressed buffer, or the buffer itself after zlib.error
Decoded(buf) ==
    IF ~Latin1Fails(buf)
    THEN latin1_encode(latin1_decode(buf))
    ELSE IF IsZlib(buf) THEN zlib_decompress(buf) ELSE buf

\* ColorExtractor._process_stream; scan is [data, matches] for this buffer
_process_stream(st, buf, scan) ==
    LET st0 == [st EXCEPT !.stream_data = buf, !.exc = "none"]
        res == _parse_content(st0, scan.data, scan.matches)
    IN  IF res.exc # "none"
        THEN [res EXCEPT !.stream_errors = @ + 1, !.exc = "none"]   \* except Exception
        ELSE res

\* sorted(..., reverse=True) as a plain ascending stable sort read backwards
RECURSIVE InsertByCount_Unstable(_, _)
InsertByCount_Unstable(sorted, c) ==
    IF sorted = <<>> THEN <<c>>
    ELSE IF Head(sorted).count > c.count
         THEN <<Head(sorted)>> \o InsertByCount_Unstable(Tail(sorted), c)
         ELSE <<c>> \o sorted

\* place c after every element whose count is >= its own: equal counts keep
\* their order, as sorted(key=count, reverse=True) keeps them
RECURSIVE InsertByCount(_, _)
InsertByCount(sorted, c) ==
    IF sorted = <<>> THEN <<c>>
    ELSE IF Head(sorted).count >= c.count
         THEN <<Head(sorted)>> \o InsertByCount(Tail(sorted), c)
         ELSE <<c>> \o sorted

RECURSIVE SortedByCount(_)
SortedByCount(reg) ==
    IF reg = <<>> THEN <<>>
    ELSE InsertByCount(SortedByCount(SubSeq(reg, 1, Len(reg) - 1)), reg[Len(reg)])

\* ColorExtractor.get_usage_stats: the list holds the registry's objects
RECURSIVE Ids(_)
Ids(cs) == IF cs = <<>> THEN <<>> ELSE <<Head(cs).id>> \o Ids(Tail(cs))

get_usage_stats(reg) == Ids(SortedByCount(reg))

(***************************************************************************)
(* The content streams the PDF library hands over: operator fragments laid *)
(* end to end, plain or compressed.                                        *)
(***************************************************************************)
Fragments ==
    { <<"1", " ", "g", "\n">>,
      <<"1", ".", "0", " ", "g", " ">>,
      <<"2", " ", "g", "\n">>,
      <<"1", ".", "2", ".", "3", " ", "g", "\n">>,
      <<".", " ", "g", "\n">>,
      <<"1", " ", "g">>,
      <<"1", " ", "0", " ", "0", " ", "r", "g", "\n">>,
      <<"1", " ", "0", " ", "0", " ", "r", "g", "b">>,
      <<"0", " ", "0", " ", "0", " ", "1", " ", "k", "\n">> }

RECURSIVE Flatten(_)
Flatten(frs) == IF frs = <<>> THEN <<>> ELSE Head(frs) \o Flatten(Tail(frs))

\* the buffer get_stream_buffer returns for a stream
StreamBuffer(frs, compressed) ==
    IF compressed THEN zlib_compress(Flatten(frs)) ELSE Flatten(frs)

\* A stream of n fragments with what decoding and the three finditer scans
\* give for it: these depend on the buffer alone.
Scan(frs, compressed) ==
    LET buf == StreamBuffer(frs, compressed)
        d   == Decoded(buf)
    IN  [stream_data |-> buf, data |-> d, matches |-> Matches(d)]

\* the streams of n fragments, plain and compressed (an empty stream only plain)
StreamsOfLen(n) ==
    {Scan(frs, compressed) :
        frs \in [1..n -> Fragments], compressed \in IF n = 0 THEN {FALSE} ELSE BOOLEAN}

RECURSIVE StreamsUpTo(_)
StreamsUpTo(n) == IF n < 0 THEN <<>> ELSE Append(StreamsUpTo(n - 1), StreamsOfLen(n))

\* Streams[n + 1]: the streams of n fragments
Streams == StreamsUpTo(MaxOps)

(***************************************************************************)
(* The extractor as a state machine.                                       *)
(***************************************************************************)
ExtractorInit ==
    /\ colors = <<>>
    /\ total_count = 0
    /\ observed = <<>>
    /\ parse_errors = 0
    /\ stream_errors = 0
    /\ stream_data = <<>>
    /\ data = <<>>
    /\ found = <<>>
    /\ recorded = <<>>
    /\ nstreams = 0
    /\ fed = 0
    /\ stats = <<>>
    /\ op = "init"

PureInit ==
    /\ cmyk_in = <<>>
    /\ cmyk_out = <<>>
    /\ requested_color = <<>>
    /\ closest_out = ""

Init == ExtractorInit /\ PureInit

\* one pass of the stream loop of extract: _process_stream(stream_data)
ProcessStream ==
    /\ nstreams < MaxStreams
    /\ \E n \in 0..(MaxOps - fed) : \E scan \in Streams[n + 1] :
          LET st  == [colors |-> colors, total_count |-> total_count,
                      observed |-> observed, parse_errors |-> parse_errors,
                      stream_errors |-> stream_errors, stream_data |-> stream_data,
                      data |-> data, found |-> found, recorded |-> recorded,
                      exc |-> "none"]
          IN  \E res \in {_process_stream(st, scan.stream_data, scan)} :
              /\ colors' = res.colors
              /\ total_count' = res.total_count
              /\ observed' = res.observed
              /\ parse_errors' = res.parse_errors
              /\ stream_errors' = res.stream_errors
              /\ stream_data' = res.stream_data
              /\ data' = res.data
              /\ found' = res.found
              /\ recorded' = res.recorded
              /\ fed' = fed + n
    /\ nstreams' = nstreams + 1
    /\ op' = "process_stream"
    /\ UNCHANGED <<stats, cmyk_in, cmyk_out, requested_color, closest_out>>

\* a call of get_usage_stats
GetUsageStats ==
    /\ stats' = get_usage_stats(colors)
    /\ op' = "get_usage_stats"
    /\ UNCHANGED <<colors, total_count, observed, parse_errors, stream_errors,
                   stream_data, data, found, recorded, nstreams, fed,
                   cmyk_in, cmyk_out, requested_color, closest_out>>

Next == ProcessStream \/ GetUsageStats

Spec == Init /\ [][Next]_vars

(***************************************************************************)
(* CMYKColorSpace.as_rgb on its own: the operands are drawn from a grid    *)
(* that reaches past 1, as the scanner does not check their range.         *)
(***************************************************************************)
CMYKGrid == {0, Scale \div 4, Scale \div 2, (3 * Scale) \div 4, Scale, 2 * Scale}

InitCMYK ==
    /\ ExtractorInit
    /\ cmyk_in \in [1..4 -> CMYKGrid]
    /\ cmyk_out = <<>>
    /\ requested_color = <<>>
    /\ closest_out = ""

ConvertCMYK ==
    /\ cmyk_out = <<>>
    /\ cmyk_out' = CMYK_as_rgb(cmyk_in)
    /\ UNCHANGED <<extractor_vars, cmyk_in, requested_color, closest_out>>

SpecCMYK == InitCMYK /\ [][ConvertCMYK]_vars

(***************************************************************************)
(* closest_color on its own: the requested colour is drawn from a grid of  *)
(* 8-bit triples.                                                          *)
(***************************************************************************)
\* steps of the grid of requested channels
GridSteps == 4

ChannelGrid == {(i * 255) \div GridSteps : i \in 0..GridSteps}

InitNames ==
    /\ ExtractorInit
    /\ cmyk_in = <<>>
    /\ cmyk_out = <<>>
    /\ requested_color \in [1..3 -> ChannelGrid]
    /\ closest_out = ""

ClosestColor ==
    /\ closest_out = ""
    /\ closest_out' = closest_color(requested_color)
    /\ UNCHANGED <<extractor_vars, cmyk_in, cmyk_out, requested_color>>

SpecNames == InitNames /\ [][ClosestColor]_vars

(***************************************************************************)
(* Properties.                                                             *)
(***************************************************************************)
Identity(c) == [space |-> c.space, value |-> c.value]

\* the (space, operands) pairs recorded so far
Identities == {observed[i] : i \in 1..Len(observed)}

\* the number of the first Color object made for an identity
FirstSeen(idn) == CHOOSE i \in 1..Len(observed) :
                      observed[i] = idn /\ \A j \in 1..(i - 1) : observed[j] # idn

\* how often an identity was recorded
Times(idn) == Cardinality({i \in 1..Len(observed) : observed[i] = idn})

\* C1: the registry holds exactly one entry per recorded (space, operands)
\* identity; the entry is the first Color object made for that identity, its
\* count is the number of times the identity was recorded, and no count is
\* below 1.
C1_OneEntryPerIdentity ==
    /\ \A idn \in Identities :
          Cardinality({i \in 1..Len(colors) : Identity(colors[i]) = idn}) = 1
    /\ \A i \in 1..Len(colors) :
          /\ Identity(colors[i]) \in Identities
          /\ colors[i].id = FirstSeen(Identity(colors[i]))
          /\ colors[i].count = Times(Identity(colors[i]))
          /\ colors[i].count >= 1

\* two identities over at least two streams, one of them recorded again
C1_Witness ==
    /\ nstreams >= 2
    /\ Len(colors) >= 2
    /\ \E i \in 1..Len(colors) : colors[i].count >= 2 /\ colors[i].id < Len(observed)

RECURSIVE SumCounts(_)
SumCounts(reg) == IF reg = <<>> THEN 0 ELSE Head(reg).count + SumCounts(Tail(reg))

\* C2: total_count is the sum of the counts of the registry's entries: it
\* grows by one with every recorded operator and with nothing else.
C2_TotalIsSumOfCounts == total_count = SumCounts(colors)

\* repeated and single colours recorded, and a match that failed to parse
C2_Witness ==
    /\ total_count >= 2
    /\ parse_errors >= 1
    /\ \E i \in 1..Len(colors) : colors[i].count >= 2

\* the registry entry a reference of the returned list points to
EntryOf(id) == CHOOSE i \in 1..Len(colors) : colors[i].id = id

\* C3: the list get_usage_stats returns holds every registry entry exactly
\* once, by non-increasing count, and entries of equal count in the order
\* they were inserted into the registry.
C3_RankedStable ==
    op = "get_usage_stats" =>
        /\ Len(stats) = Len(colors)
        /\ \A i \in 1..Len(colors) :
              Cardinality({j \in 1..Len(stats) : stats[j] = colors[i].id}) = 1
        /\ \A i, j \in 1..Len(stats) :
              i < j =>
                 /\ colors[EntryOf(stats[i])].count >= colors[EntryOf(stats[j])].count
                 /\ colors[EntryOf(stats[i])].count = colors[EntryOf(stats[j])].count
                       => EntryOf(stats[i]) < EntryOf(stats[j])

\* a ranking of three entries, two of them with the same count
C3_Witness ==
    /\ op = "get_usage_stats"
    /\ Len(stats) >= 3
    /\ \E i, j \in 1..Len(colors) : i # j /\ colors[i].count = colors[j].count

\* the matches of a buffer, as <<pattern, index>> pairs, by the validity of their tokens
WellFormed(m) == \A i \in 1..Len(m.groups) : ValidDecimal(m.groups[i])

GoodMatches(ms) == {p \in UNION {{<<k, j>> : j \in 1..Len(ms[k])} : k \in 1..Len(ms)} :
                        WellFormed(ms[p[1]][p[2]])}

BadMatches(ms) == {p \in UNION {{<<k, j>> : j \in 1..Len(ms[k])} : k \in 1..Len(ms)} :
                        ~WellFormed(ms[p[1]][p[2]])}

MatchIdentity(ms, p) ==
    [space |-> COLOR_SPACE_MAP[p[1]].space, value |-> Components(ms[p[1]][p[2]].groups)]

CountIn(reg, idn) ==
    IF \E i \in 1..Len(reg) : Identity(reg[i]) = idn
    THEN reg[CHOOSE i \in 1..Len(reg) : Identity(reg[i]) = idn].count
    ELSE 0

\* C4 (found is what the three finditer scans returned for the buffer):
\* when a buffer holds a match with a token that is no decimal, that
\* match alone is skipped: it is reported, it changes neither the registry
\* nor total_count, no exception leaves _parse_content, and every other
\* match of the buffer is recorded, in this stream and in every later one.
C4_MalformedMatchSkipped ==
    [][nstreams' = nstreams + 1 =>
        \A ms \in {found'} :
            BadMatches(ms) # {} =>
               /\ total_count' = total_count + Cardinality(GoodMatches(ms))
               /\ parse_errors' = parse_errors + Cardinality(BadMatches(ms))
               /\ stream_errors' = stream_errors
               /\ Len(recorded') = Cardinality(GoodMatches(ms))
               /\ \A idn \in {Identity(colors'[i]) : i \in 1..Len(colors')} :
                     CountIn(colors', idn) - CountIn(colors, idn)
                        = Cardinality({p \in GoodMatches(ms) : MatchIdentity(ms, p) = idn})
               /\ \A p \in GoodMatches(ms) : CountIn(colors', MatchIdentity(ms, p)) >= 1
               /\ \A i \in 1..Len(colors) : Identity(colors'[i]) = Identity(colors[i])]_vars

\* a later stream with a malformed match and a well-formed one, both handled
C4_Witness ==
    /\ op = "process_stream"
    /\ nstreams >= 2
    /\ parse_errors >= 1
    /\ BadMatches(found) # {}
    /\ Len(recorded) >= 1

\* C5 as claimed: a stream that is a valid zlib stream is scanned
\* decompressed, and any other stream is scanned as it is.
C5_DecompressedWhenDeflated ==
    op = "process_stream" =>
        IF IsZlib(stream_data) THEN data = zlib_decompress(stream_data)
        ELSE data = stream_data

\* an operator occurrence whose keyword ends at q: a numeric byte, whitespace, the keyword
OccurrenceEndingAt(buf, q) ==
    \E k \in 1..Len(COLOR_SPACE_MAP) :
        LET kw == COLOR_SPACE_MAP[k].kw
            a  == q - Len(kw) + 1
        IN  /\ a >= 3
            /\ q <= Len(buf)
            /\ SubSeq(buf, a, q) = kw
            /\ IsSpace(buf[a - 1])
            /\ \E n \in 1..(a - 2) :
                  /\ IsNum(buf[n])
                  /\ \A x \in (n + 1)..(a - 1) : IsSpace(buf[x])

\* C6: no colour of any space is recorded for a keyword whose next byte is
\* a letter.
C6_LetterAfterKeywordNotRecorded ==
    \A q \in 1..(Len(data) - 1) :
        IsAlpha(data[q + 1]) => \A i \in 1..Len(recorded) : recorded[i].kwEnd # q

\* a scanned buffer with operands, a keyword and a letter right after it
C6_Witness ==
    /\ op = "process_stream"
    /\ \E q \in 1..(Len(data) - 1) : OccurrenceEndingAt(data, q) /\ IsAlpha(data[q + 1])

\* the value of a string of uppercase hex digits, -1 when a byte is none
RECURSIVE HexVal(_)
HexVal(h) ==
    IF h = <<>> THEN 0
    ELSE LET last == h[Len(h)]
             rest == HexVal(SubSeq(h, 1, Len(h) - 1))
         IN  IF rest < 0 \/ ~\E n \in 1..16 : HexChars[n] = last THEN -1
             ELSE rest * 16 + (CHOOSE n \in 1..16 : HexChars[n] = last) - 1

\* C8 as claimed: the hex of every recorded colour is '#' and exactly two
\* uppercase hex digits per channel, each pair being int(channel * 255).
C8_HexIsRRGGBB ==
    \A i \in 1..Len(colors) :
        LET h == hex(colors[i])
            c == rgb(colors[i])
        IN  /\ Len(h) = 7
            /\ h[1] = "#"
            /\ \A ch \in 1..3 :
                  HexVal(SubSeq(h, 2 * ch, 2 * ch + 1)) = Byte255(c[ch])

\* C10: no colour is recorded for a keyword that is the last bytes of the
\* buffer: every recorded match holds one more byte after its keyword.
C10_KeywordAtEndNotRecorded ==
    \A i \in 1..Len(recorded) :
        /\ recorded[i].kwEnd < Len(data)
        /\ recorded[i].end = recorded[i].kwEnd + 2

\* a scanned buffer that ends in operands and a keyword
C10_Witness ==
    /\ op = "process_stream"
    /\ OccurrenceEndingAt(data, Len(data))

\* C9: for operands in [0,1] every channel as_rgb returns is
\* 1 - min(1, x*(1-k) + k), which there is (1-x)*(1-k), and lies in [0,1].
C9_CMYKConversion ==
    (cmyk_out # <<>> /\ \A i \in 1..4 : cmyk_in[i] >= 0 /\ cmyk_in[i] <= Scale) =>
        /\ \A ch \in 1..3 :
              /\ cmyk_out[ch][2] = Scale * Scale
              /\ cmyk_out[ch][1] = (Scale - cmyk_in[ch]) * (Scale - cmyk_in[4])
              /\ cmyk_out[ch][1] >= 0
              /\ cmyk_out[ch][1] <= cmyk_out[ch][2]
        /\ cmyk_in = <<0, 0, 0, 0>> => \A ch \in 1..3 : cmyk_out[ch][1] = cmyk_out[ch][2]
        /\ cmyk_in = <<0, 0, 0, Scale>> => \A ch \in 1..3 : cmyk_out[ch][1] = 0
        /\ cmyk_in = <<Scale, 0, 0, 0>> =>
              /\ cmyk_out[1][1] = 0
              /\ cmyk_out[2][1] = cmyk_out[2][2]
              /\ cmyk_out[3][1] = cmyk_out[3][2]

\* a conversion of in-range operands with some black and some ink
C9_Witness ==
    /\ cmyk_out # <<>>
    /\ \A i \in 1..4 : cmyk_in[i] > 0 /\ cmyk_in[i] < Scale

\* the least distance from the requested colour to a palette entry
LeastDistance ==
    CHOOSE d \in {Distance(Palette[i].rgb, requested_color) : i \in 1..Len(Palette)} :
        \A i \in 1..Len(Palette) : d <= Distance(Palette[i].rgb, requested_color)

Nearest == {i \in 1..Len(Palette) : Distance(Palette[i].rgb, requested_color) = LeastDistance}

\* C7 as claimed: closest_color returns a name at the least distance, and
\* of several such names the one the palette lists first.
C7_FirstNearestName ==
    closest_out # "" =>
        closest_out = Palette[CHOOSE i \in Nearest : \A j \in Nearest : i <= j].name

\* C7, amended: closest_color returns a name at the least distance, and of
\* several such names the one the palette lists last.
C7_LastNearestName ==
    closest_out # "" =>
        closest_out = Palette[CHOOSE i \in Nearest : \A j \in Nearest : i >= j].name

\* a lookup with two palette entries at the least distance
C7_Witness ==
    /\ closest_out # ""
    /\ Cardinality(Nearest) >= 2

====
